---- MODULE Spec2Model ----
(***************************************************************************)
(* Model of Fetcher/generate_castles_csv.py: the listing page is fetched,  *)
(* its links are filtered into fortification candidates, every candidate   *)
(* is processed by a task of a thread pool that appends a row to a shared  *)
(* CSV file under csv_lock, and remove_duplicates writes the final file.   *)
(*                                                                         *)
(* Python strings are sequences of one-character strings, so that          *)
(* substring tests, lower(), split() and the regular expressions of the    *)
(* source are computed character by character.                             *)
(***************************************************************************)
EXTENDS Integers, Sequences, FiniteSets, TLC

(***************************************************************************)
(* Python values                                                           *)
(***************************************************************************)

\* Python's None where a string is expected; no string of characters equals it.
None == <<"<None>">>

\* bool(v) of a value that is None or a string.
Truthy(v) == v # None /\ v # <<>>

\* str.lower() on the characters the inputs use.
UpperChars ==
  <<"A","B","C","D","E","F","G","H","I","J","K","L","M","N","O","P","Q","R",
    "S","T","U","V","W","X","Y","Z","Ã","Ç","É","Á","Õ">>

LowerChars ==
  <<"a","b","c","d","e","f","g","h","i","j","k","l","m","n","o","p","q","r",
    "s","t","u","v","w","x","y","z","ã","ç","é","á","õ">>

LowerChar(c) ==
  IF \E k \in 1..Len(UpperChars) : UpperChars[k] = c
  THEN LowerChars[CHOOSE k \in 1..Len(UpperChars) : UpperChars[k] = c]
  ELSE c

Lower(s) == [k \in 1..Len(s) |-> LowerChar(s[k])]

\* needle in hay
Contains(hay, needle) ==
  \E k \in 0..(Len(hay) - Len(needle)) :
    SubSeq(hay, k + 1, k + Len(needle)) = needle

\* s.startswith(prefix)
StartsWith(s, prefix) ==
  Len(prefix) <= Len(s) /\ SubSeq(s, 1, Len(prefix)) = prefix

\* s.find(sep) + 1, or 0 when sep does not occur in s
Find(s, sep) ==
  IF Contains(s, sep)
  THEN CHOOSE k \in 1..(Len(s) - Len(sep) + 1) :
         /\ SubSeq(s, k, k + Len(sep) - 1) = sep
         /\ \A j \in 1..(k - 1) : SubSeq(s, j, j + Len(sep) - 1) # sep
  ELSE 0

\* s.split(sep)[-1]: split scans left to right over non-overlapping matches
RECURSIVE SplitLast(_, _)
SplitLast(s, sep) ==
  IF Find(s, sep) = 0 THEN s
  ELSE SplitLast(SubSeq(s, Find(s, sep) + Len(sep), Len(s)), sep)

\* s.replace(a, b) for single characters, b a string
RECURSIVE ReplaceChar(_, _, _)
ReplaceChar(s, a, b) ==
  IF s = <<>> THEN <<>>
  ELSE (IF Head(s) = a THEN b ELSE <<Head(s)>>) \o ReplaceChar(Tail(s), a, b)

\* s.strip() (the inputs' whitespace is the space)
IsSpace(c) == c = " "

RECURSIVE LStrip(_)
LStrip(s) == IF s # <<>> /\ IsSpace(Head(s)) THEN LStrip(Tail(s)) ELSE s

RECURSIVE RStrip(_)
RStrip(s) ==
  IF s # <<>> /\ IsSpace(s[Len(s)]) THEN RStrip(SubSeq(s, 1, Len(s) - 1)) ELSE s

Strip(s) == RStrip(LStrip(s))

(***************************************************************************)
(* urllib.parse.unquote                                                    *)
(***************************************************************************)

HexDigits == <<"0","1","2","3","4","5","6","7","8","9","A","B","C","D","E","F">>

HexLower == <<"0","1","2","3","4","5","6","7","8","9","a","b","c","d","e","f">>

IsHex(c) == \E k \in 1..16 : HexDigits[k] = c \/ HexLower[k] = c

HexVal(c) == (CHOOSE k \in 1..16 : HexDigits[k] = c \/ HexLower[k] = c) - 1

\* the byte a %XY escape at the head of s stands for, or -1 when s does not
\* start with an escape
EscapeByte(s) ==
  IF Len(s) >= 3 /\ s[1] = "%" /\ IsHex(s[2]) /\ IsHex(s[3])
  THEN 16 * HexVal(s[2]) + HexVal(s[3])
  ELSE -1

\* printable ASCII, bytes 32..126
Ascii ==
  <<" ","!","<quot>","#","$","%","&","'","(",")","*","+",",","-",".","/",
    "0","1","2","3","4","5","6","7","8","9",":",";","<","=",">","?",
    "@","A","B","C","D","E","F","G","H","I","J","K","L","M","N","O",
    "P","Q","R","S","T","U","V","W","X","Y","Z","[","<backslash>","]","^","_",
    "<backtick>","a","b","c","d","e","f","g","h","i","j","k","l","m","n","o",
    "p","q","r","s","t","u","v","w","x","y","z","{","|","}","~">>

\* the second byte of the two-byte UTF-8 sequences C3 xx the inputs use
Latin1Bytes == <<131, 135, 137, 129, 149, 163, 167, 169, 161, 181>>

Latin1Chars == <<"Ã","Ç","É","Á","Õ","ã","ç","é","á","õ">>

\* U+FFFD, which the decoder puts for an undecodable byte
Replacement == "<U+FFFD>"

\* unquote(s): every %XY escape is a byte and the bytes are decoded as UTF-8
\* (undecodable bytes replaced); a % that starts no escape stays as it is
RECURSIVE Unquote(_)
Unquote(s) ==
  IF s = <<>> THEN <<>>
  ELSE LET b == EscapeByte(s)
           b2 == EscapeByte(SubSeq(s, 4, Len(s)))
       IN  IF b = -1 THEN <<Head(s)>> \o Unquote(Tail(s))
           ELSE IF b >= 32 /\ b <= 126
             THEN <<Ascii[b - 31]>> \o Unquote(SubSeq(s, 4, Len(s)))
           ELSE IF b = 195 /\ \E k \in 1..Len(Latin1Bytes) : Latin1Bytes[k] = b2
             THEN <<Latin1Chars[CHOOSE k \in 1..Len(Latin1Bytes) :
                                   Latin1Bytes[k] = b2]>>
                  \o Unquote(SubSeq(s, 7, Len(s)))
           ELSE <<Replacement>> \o Unquote(SubSeq(s, 4, Len(s)))

(***************************************************************************)
(* extract_proper_name_from_url                                            *)
(***************************************************************************)

\* re.sub(r'\(', ' (', s): a space goes before every opening parenthesis
SpaceBeforeParen(s) == ReplaceChar(s, "(", <<" ", "(">>)

\* s starts with zero or more whitespace characters and then "("
RECURSIVE SpacesThenParen(_)
SpacesThenParen(s) ==
  /\ s # <<>>
  /\ \/ Head(s) = "("
     \/ IsSpace(Head(s)) /\ SpacesThenParen(Tail(s))

\* s without its leading whitespace
AfterSpaces(s) == LStrip(s)

\* re.sub(r'\s+\(', ' (', s): a run of whitespace before "(" becomes one space
RECURSIVE CollapseBeforeParen(_)
CollapseBeforeParen(s) ==
  IF s = <<>> THEN <<>>
  ELSE IF IsSpace(Head(s)) /\ SpacesThenParen(Tail(s))
    THEN <<" ", "(">> \o CollapseBeforeParen(Tail(AfterSpaces(s)))
  ELSE <<Head(s)>> \o CollapseBeforeParen(Tail(s))

\* r'\s*\([^)]*\)$' matches s from position k on: whitespace, "(", characters
\* other than ")", and ")" as the last character of s
SuffixMatchesAt(s, k) ==
  \E j \in k..(Len(s) - 1) :
    /\ \A i \in k..(j - 1) : IsSpace(s[i])
    /\ s[j] = "("
    /\ s[Len(s)] = ")"
    /\ \A i \in (j + 1)..(Len(s) - 1) : s[i] # ")"

\* re.sub(r'\s*\([^)]*\)$', '', s): the leftmost match is removed
StripParenSuffix(s) ==
  IF \E k \in 1..Len(s) : SuffixMatchesAt(s, k)
  THEN SubSeq(s, 1, (CHOOSE k \in 1..Len(s) :
                       /\ SuffixMatchesAt(s, k)
                       /\ \A j \in 1..(k - 1) : ~SuffixMatchesAt(s, j)) - 1)
  ELSE s

wiki_sep == <<"/","w","i","k","i","/">>

\* lines 18-31: the article part of the URL, decoded and cleaned
clean_name(url) ==
  StripParenSuffix(
    CollapseBeforeParen(
      SpaceBeforeParen(
        ReplaceChar(SplitLast(Unquote(url), wiki_sep), "_", <<" ">>))))

fort_types ==
  <<
    <<"c","a","s","t","e","l","o">>,
    <<"f","o","r","t","e">>,
    <<"f","o","r","t","a","l","e","z","a">>,
    <<"m","u","r","a","l","h","a">>,
    <<"m","u","r","a","l","h","a","s">>,
    <<"t","o","r","r","e">>,
    <<"c","i","d","a","d","e","l","a">>,
    <<"f","o","r","t","i","f","i","c","a","ç","ã","o">>,
    <<"b","a","t","e","r","i","a">>,
    <<"b","a","l","u","a","r","t","e">>,
    <<"a","t","a","l","a","i","a">>,
    <<"r","e","d","u","t","o">>,
    <<"p","r","a","ç","a","-","f","o","r","t","e">>
  >>

\* should_use_url_name with >= where line 52 has >
should_use_url_name_not_strict(url, current_name) ==
  LET current_lower == Lower(current_name)
      clean_lower == Lower(clean_name(url))
  IN  \/ \E k \in 1..Len(fort_types) :
           /\ Contains(clean_lower, fort_types[k])
           /\ ~Contains(current_lower, fort_types[k])
      \/ /\ Contains(clean_lower, current_lower)
         /\ Len(clean_name(url)) >= Len(current_name)

\* lines 45-53
should_use_url_name(url, current_name) ==
  LET current_lower == Lower(current_name)
      clean_lower == Lower(clean_name(url))
  IN  \/ \E k \in 1..Len(fort_types) :
           /\ Contains(clean_lower, fort_types[k])
           /\ ~Contains(current_lower, fort_types[k])
      \/ /\ Contains(clean_lower, current_lower)
         /\ Len(clean_name(url)) > Len(current_name)

\* lines 18 and 34: unquote raises on a url that is None and None has no
\* lower(); no operation of lines 18-53 raises on str arguments, so the
\* except branch is not taken for the strings main passes
extraction_raises(url, current_name) == url = None \/ current_name = None

\* lines 16-61; the except branch of lines 59-61 returns current_name
extract_proper_name_from_url(url, current_name) ==
  IF extraction_raises(url, current_name) THEN current_name
  ELSE IF should_use_url_name(url, current_name) THEN clean_name(url)
  ELSE current_name

(***************************************************************************)
(* create_google_maps_link, is_fortification                               *)
(***************************************************************************)

maps_base == <<"h","t","t","p","s",":","/","/","w","w","w",".","g","o","o","g","l","e",".","c","o","m","/","m","a","p","s","?","q","=">>

\* create_google_maps_link with the longitude before the latitude
create_google_maps_link_lon_first(lat, lon) ==
  IF Truthy(lat) /\ Truthy(lon) THEN maps_base \o lon \o <<",">> \o lat
  ELSE <<>>

create_google_maps_link(lat, lon) ==
  IF Truthy(lat) /\ Truthy(lon) THEN maps_base \o lat \o <<",">> \o lon
  ELSE <<>>

fortification_keywords ==
  <<
    <<"c","a","s","t","e","l","o">>,
    <<"f","o","r","t","e">>,
    <<"f","o","r","t","a","l","e","z","a">>,
    <<"m","u","r","a","l","h","a">>,
    <<"t","o","r","r","e">>,
    <<"c","i","d","a","d","e","l","a">>,
    <<"f","o","r","t","i","f","i","c","a","ç","ã","o">>,
    <<"b","a","t","e","r","i","a">>,
    <<"b","a","l","u","a","r","t","e">>,
    <<"a","t","a","l","a","i","a">>,
    <<"r","e","d","u","t","o">>
  >>

\* is_fortification without lines 137-139: the URL is not looked at
is_fortification_name_only(name, url) ==
  \E k \in 1..Len(fortification_keywords) :
    Contains(Lower(name), fortification_keywords[k])

\* lines 132-141
is_fortification(name, url) ==
  \/ \E k \in 1..Len(fortification_keywords) :
       Contains(Lower(name), fortification_keywords[k])
  \/ \E k \in 1..Len(fortification_keywords) :
       Contains(Lower(url), fortification_keywords[k])

(***************************************************************************)
(* The network: what a request can return                                  *)
(***************************************************************************)

\* The Wikidata entity the article at url is about: what the article says does
\* not change during a run, whether a request for it succeeds does.
entity_of(url) ==
  IF Contains(url, <<"F","o","z">>) THEN <<"Q","1">> ELSE <<"Q","2","0">>

wikidata_base == <<"h","t","t","p","s",":","/","/","w","w","w",".","w","i","k","i","d","a","t","a",".","o","r","g","/","w","i","k","i","/">>

\* What get_wikidata_id_from_wikipedia sees of the page at a URL: the request
\* or the parser raises, or the page has a first anchor whose href matches
\* https?://www\.wikidata\.org/wiki/Q\d+ (wikidata_link, None when there is
\* none) and a script with "wgWikibaseItemId":"(Q\d+)" (script_item, the
\* group, None when there is none).
PageNames == {"raise", "link", "script", "none", "slash"}

Page(url, r) ==
  CASE r = "raise" ->
         [raises |-> TRUE, wikidata_link |-> None, script_item |-> None]
    [] r = "link" ->
         [raises |-> FALSE,
          wikidata_link |-> wikidata_base \o entity_of(url),
          script_item |-> entity_of(url)]
    [] r = "script" ->
         [raises |-> FALSE, wikidata_link |-> None,
          script_item |-> entity_of(url)]
    [] r = "slash" ->
         [raises |-> FALSE,
          wikidata_link |-> wikidata_base \o entity_of(url) \o <<"/">>,
          script_item |-> None]
    [] OTHER ->
         [raises |-> FALSE, wikidata_link |-> None, script_item |-> None]

\* get_wikidata_id_from_wikipedia without the fallback of lines 77-81
get_wikidata_id_link_only(page) ==
  IF page.raises THEN None
  ELSE IF page.wikidata_link # None
    THEN SplitLast(page.wikidata_link, <<"/">>)
  ELSE None

\* lines 65-86, on the page the request returned
get_wikidata_id_from_wikipedia(page) ==
  IF page.raises THEN None
  ELSE IF page.wikidata_link # None
    THEN SplitLast(page.wikidata_link, <<"/">>)
  ELSE IF page.script_item # None THEN page.script_item
  ELSE None

\* A number of the JSON answer is kept as its Python repr; null is None.
JsonNum(repr) == [null |-> FALSE, repr |-> repr]

JsonNull == [null |-> TRUE, repr |-> <<>>]

\* str(v) of a JSON value
PyStr(v) == IF v.null THEN <<"N","o","n","e">> ELSE v.repr

\* What get_coordinates_from_wikidata sees of the answer of wbgetclaims: the
\* request or the JSON parser raises, or the answer has claims.P625 (has_P625)
\* with the statements P625, each with or without mainsnak.datavalue.
ClaimsNames == {"raise", "absent", "empty", "novalue", "coords"}

Statement(latitude, longitude) ==
  [has_datavalue |-> TRUE, latitude |-> latitude, longitude |-> longitude]

\* the coordinate statements of an entity that has them
P625_of(id) ==
  IF id = <<"Q","1">>
  THEN <<Statement(JsonNum(<<"3","8",".","7">>), JsonNum(<<"-","9",".","1">>)),
         Statement(JsonNum(<<"4","1",".","1">>), JsonNum(<<"-","8",".","6">>))>>
  ELSE <<Statement(JsonNum(<<"0",".","0">>), JsonNum(<<"0">>))>>

Claims(id, r) ==
  CASE r = "raise" -> [raises |-> TRUE, has_P625 |-> FALSE, P625 |-> <<>>]
    [] r = "empty" -> [raises |-> FALSE, has_P625 |-> TRUE, P625 |-> <<>>]
    [] r = "novalue" ->
         [raises |-> FALSE, has_P625 |-> TRUE,
          P625 |-> <<[has_datavalue |-> FALSE, latitude |-> JsonNull,
                      longitude |-> JsonNull]>>]
    [] r = "coords" ->
         [raises |-> FALSE, has_P625 |-> TRUE, P625 |-> P625_of(id)]
    [] OTHER -> [raises |-> FALSE, has_P625 |-> FALSE, P625 |-> <<>>]

\* issues_request with the test of line 90 missing
issues_request_always(wikidata_id) == TRUE

\* lines 90-91: a call with a falsy id returns before the request of line 103
issues_request(wikidata_id) == Truthy(wikidata_id)

\* lines 90-116, on the answer the request returned: <<latitude, longitude>>.
\* P625[0] of an empty list and ["datavalue"] of a statement without one raise,
\* and the except branch returns None, None.
get_coordinates_from_wikidata(wikidata_id, data) ==
  IF ~issues_request(wikidata_id) THEN <<None, None>>
  ELSE IF data.raises THEN <<None, None>>
  ELSE IF data.has_P625
    THEN IF data.P625 = <<>> \/ ~data.P625[1].has_datavalue
         THEN <<None, None>>
         ELSE <<PyStr(data.P625[1].latitude), PyStr(data.P625[1].longitude)>>
  ELSE <<None, None>>

(***************************************************************************)
(* Bounds and inputs                                                       *)
(***************************************************************************)

\* the most links the listing page has
MaxLinks == 3

\* the most data rows of an input file of remove_duplicates taken alone
MaxRows == 4

\* ThreadPoolExecutor(max_workers=10)
max_workers == 10

\* The links the listing page can hold, in page order: soup.find_all('a') is
\* a subsequence of these, at most MaxLinks long.  href is None for an anchor
\* without href.
PageLinks ==
  <<
    [href |-> <<"/","w","i","k","i","/","F","o","z">>, text |-> <<"F","o","r","t","e"," ","d","a"," ","F","o","z">>],
    [href |-> <<"/","w","i","k","i","/","F","o","z">>, text |-> <<" ","C","a","s","t","e","l","o"," ","d","a"," ","F","o","z"," ">>],
    [href |-> <<"/","w","i","k","i","/","F","o","r","t","e","_","B","_","(","F","a","r","o",")">>, text |-> <<"B">>],
    [href |-> <<"/","w","i","k","i","/","T","o","r","r","e","_","A">>, text |-> <<"T","o","r","r","e"," ","A">>],
    [href |-> <<"/","w","i","k","i","/","F","i","c","h","e","i","r","o",":","T","o","r","r","e",".","j","p","g">>, text |-> <<"T","o","r","r","e">>],
    [href |-> <<"/","w","i","k","i","/","F","a","r","o">>, text |-> <<"F","a","r","o">>],
    [href |-> <<"/","w","i","k","i","/","T","o","r","r","e","_","A">>, text |-> <<" ">>],
    [href |-> None, text |-> <<"C","a","s","t","e","l","o">>]
  >>

\* the index sets of the subsequences of PageLinks of at most MaxLinks links
LinkChoices == {c \in SUBSET (1..Len(PageLinks)) : Cardinality(c) <= MaxLinks}

\* the subsequence of s at the indices c, in order
RECURSIVE SubsequenceAt(_, _)
SubsequenceAt(s, c) ==
  IF c = {} THEN <<>>
  ELSE LET k == CHOOSE k \in c : \A j \in c : k <= j
       IN  <<s[k]>> \o SubsequenceAt(s, c \ {k})

(***************************************************************************)
(* main, lines 209-225: the links that become fortification_links          *)
(***************************************************************************)

base_url == <<"h","t","t","p","s",":","/","/","p","t",".","w","i","k","i","p","e","d","i","a",".","o","r","g">>

wiki_prefix == <<"/","w","i","k","i","/">>

excluded_namespaces ==
  <<
    <<"F","i","c","h","e","i","r","o",":">>,
    <<"C","a","t","e","g","o","r","i","a",":">>,
    <<"E","s","p","e","c","i","a","l",":">>,
    <<"A","j","u","d","a",":">>,
    <<"W","i","k","i","p","é","d","i","a",":">>,
    <<"P","r","e","d","e","f","i","n","i","ç","ã","o",":">>,
    <<"L","i","s","t","a","_","d","e","_">>,
    <<"U","t","i","l","i","z","a","d","o","r",":">>,
    <<"D","i","s","c","u","s","s","ã","o",":">>
  >>

\* lines 214-219
is_article_link(link) ==
  /\ Truthy(link.href)
  /\ StartsWith(link.href, wiki_prefix)
  /\ ~\E k \in 1..Len(excluded_namespaces) :
        Contains(link.href, excluded_namespaces[k])
  /\ Len(link.text) > 0
  /\ Len(Strip(link.text)) > 0

\* lines 220-221
candidate_of(link) == [name |-> Strip(link.text), url |-> base_url \o link.href]

\* lines 212-225
RECURSIVE filter_links(_)
filter_links(ls) ==
  IF ls = <<>> THEN <<>>
  ELSE (IF /\ is_article_link(Head(ls))
           /\ is_fortification(candidate_of(Head(ls)).name,
                               candidate_of(Head(ls)).url)
        THEN <<candidate_of(Head(ls))>> ELSE <<>>)
       \o filter_links(Tail(ls))

(***************************************************************************)
(* remove_duplicates                                                       *)
(***************************************************************************)

csv_header ==
  <<
    <<"C","a","s","t","l","e"," ","N","a","m","e">>,
    <<"L","a","t","i","t","u","d","e">>,
    <<"L","o","n","g","i","t","u","d","e">>,
    <<"G","o","o","g","l","e"," ","M","a","p","s"," ","L","i","n","k">>,
    <<"W","i","k","i","p","e","d","i","a"," ","L","i","n","k">>
  >>

\* what csv.writer writes for a field and csv.reader gives back: None is
\* written as the empty field, a string as itself
CsvField(v) == IF v = None THEN <<>> ELSE v

\* unique_rows with line 187 missing: no URL is ever recorded as seen
unique_rows_never_seen(rows, seen_urls) == rows

\* unique_rows keeping the last row of each URL instead of the first
RECURSIVE unique_rows_keep_last(_, _)
unique_rows_keep_last(rows, seen_urls) ==
  IF rows = <<>> THEN <<>>
  ELSE IF \E k \in 2..Len(rows) : rows[k][5] = Head(rows)[5]
    THEN unique_rows_keep_last(Tail(rows), seen_urls)
  ELSE <<Head(rows)>> \o unique_rows_keep_last(Tail(rows), seen_urls)

\* lines 184-188: the loop over the rows after the header
RECURSIVE unique_rows(_, _)
unique_rows(rows, seen_urls) ==
  IF rows = <<>> THEN <<>>
  ELSE IF Head(rows)[5] \notin seen_urls
    THEN <<Head(rows)>> \o unique_rows(Tail(rows), seen_urls \cup {Head(rows)[5]})
  ELSE unique_rows(Tail(rows), seen_urls)

\* remove_duplicates with line 192 missing: the header is not written back
remove_duplicates_no_header(input_file) == unique_rows(Tail(input_file), {})

\* lines 177-193: the rows of output_file for the rows of input_file; next(reader)
\* takes the first row as the header
remove_duplicates(input_file) ==
  <<Head(input_file)>> \o unique_rows(Tail(input_file), {})

(***************************************************************************)
(* State                                                                   *)
(***************************************************************************)

VARIABLES
  mainpc,               \* where main is
  links,                \* main's list of the links of the listing page
  fortification_links,  \* main's list of (name, full_url)
  pc,                   \* pc[i]: where the task of fortification_links[i] is
  proper_name,          \* the locals of process_fortification, per task
  wikidata_id,
  lat,
  lon,
  google_maps_link,
  csv_lock,             \* 0 when free, else the task that holds it
  temp_csv,             \* the rows of portuguese_fortifications_temp.csv
  final_csv,            \* the rows of portuguese_fortifications.csv
  writes,               \* history: the tasks that called writerow, in order
  claims_requests,      \* history: the wbgetclaims requests, <<task, entity>>
  deterministic,        \* whether a request repeated gets the same answer
  web,                  \* the answer each page URL has given, "?" before
  wikidata              \* the answer each entity has given, "?" before

vars ==
  <<mainpc, links, fortification_links, pc, proper_name, wikidata_id, lat, lon,
    google_maps_link, csv_lock, temp_csv, final_csv, writes, claims_requests,
    deterministic, web, wikidata>>

\* the two lists of main
listing == <<links, fortification_links>>

locals == <<proper_name, wikidata_id, lat, lon, google_maps_link>>

files == <<temp_csv, final_csv, writes>>

network == <<deterministic, web, wikidata>>

\* the URLs a candidate can have, and the entity ids a page can give
Urls ==
  {candidate_of(PageLinks[k]).url :
     k \in {j \in 1..Len(PageLinks) : PageLinks[j].href # None}}

EntityIds ==
  {get_wikidata_id_from_wikipedia(Page(u, r)) : u \in Urls, r \in PageNames}
    \ {None, <<>>}

Tasks == 1..Len(fortification_links)

\* a task that a worker thread is executing
Running(i) == pc[i] \notin {"unsubmitted", "queued", "done"}

\* the answers a request for the page at url can get
PageAnswers(url) == IF web[url] = "?" THEN PageNames ELSE {web[url]}

\* the answers a wbgetclaims request for entity id can get
ClaimsAnswers(id) == IF wikidata[id] = "?" THEN ClaimsNames ELSE {wikidata[id]}

InitProgram ==
  /\ mainpc = "fetch"
  /\ links = <<>>
  /\ fortification_links = <<>>
  /\ pc = <<>>
  /\ proper_name = <<>>
  /\ wikidata_id = <<>>
  /\ lat = <<>>
  /\ lon = <<>>
  /\ google_maps_link = <<>>
  /\ csv_lock = 0
  /\ temp_csv = <<>>
  /\ final_csv = <<>>
  /\ writes = <<>>
  /\ claims_requests = {}
  /\ web = [u \in Urls |-> "?"]
  /\ wikidata = [q \in EntityIds |-> "?"]

\* any request may get any answer, also when it is repeated
Init == InitProgram /\ deterministic = FALSE

\* a page or an entity gives the same answer every time it is requested
InitDet == InitProgram /\ deterministic = TRUE

(***************************************************************************)
(* main                                                                    *)
(***************************************************************************)

\* lines 200-206: the listing page is fetched and its links are found;
\* requests.get raising ends main with the exception
FetchListing ==
  /\ mainpc = "fetch"
  /\ \/ \E c \in LinkChoices :
          /\ links' = SubsequenceAt(PageLinks, c)
          /\ mainpc' = "filter"
     \/ /\ mainpc' = "aborted"
        /\ UNCHANGED links
  /\ UNCHANGED <<fortification_links, pc, locals, csv_lock, files, network,
                 claims_requests>>

\* lines 209-225: the loop that fills fortification_links
FilterLinks ==
  /\ mainpc = "filter"
  /\ LET found == filter_links(links)
     IN  /\ fortification_links' = found
         /\ pc' = [i \in 1..Len(found) |-> "unsubmitted"]
         /\ proper_name' = [i \in 1..Len(found) |-> None]
         /\ wikidata_id' = [i \in 1..Len(found) |-> None]
         /\ lat' = [i \in 1..Len(found) |-> None]
         /\ lon' = [i \in 1..Len(found) |-> None]
         /\ google_maps_link' = [i \in 1..Len(found) |-> None]
  /\ mainpc' = "open"
  /\ UNCHANGED <<links, csv_lock, files, network, claims_requests>>

\* lines 227-233: the temporary file is created and the header written; links
\* is not read after the loop, and is let go here
OpenTemp ==
  /\ mainpc = "open"
  /\ temp_csv' = <<csv_header>>
  /\ links' = <<>>
  /\ mainpc' = "submit"
  /\ UNCHANGED <<fortification_links, claims_requests, pc, locals, csv_lock,
                 final_csv, writes, network>>

\* lines 238-241: executor.submit for the next candidate
Submit ==
  /\ mainpc = "submit"
  /\ \E i \in Tasks :
       /\ pc[i] = "unsubmitted"
       /\ \A j \in 1..(i - 1) : pc[j] # "unsubmitted"
       /\ pc' = [pc EXCEPT ![i] = "queued"]
  /\ UNCHANGED <<mainpc, listing, claims_requests, locals, csv_lock, files,
                 network>>

\* all_done without the wait: main goes on once the tasks are submitted
all_done_not_awaited == TRUE

\* line 244 and the exits of the two with blocks: every future is done
all_done == \A i \in Tasks : pc[i] = "done"

\* lines 244-245: concurrent.futures.wait(futures) returns, the executor shuts
\* down and the temporary file is closed
Wait ==
  /\ mainpc = "submit"
  /\ \A i \in Tasks : pc[i] # "unsubmitted"
  /\ all_done
  /\ mainpc' = "dedup"
  /\ UNCHANGED <<listing, claims_requests, pc, locals, csv_lock, files,
                 network>>

\* RemoveDuplicates called with temp_csv as input_file and as output_file
RemoveDuplicates_in_place ==
  /\ mainpc = "dedup"
  /\ temp_csv' = remove_duplicates(temp_csv)
  /\ final_csv' = remove_duplicates(temp_csv)
  /\ mainpc' = "done"
  /\ UNCHANGED <<listing, claims_requests, pc, locals, csv_lock, writes,
                 network>>

\* line 247
RemoveDuplicates ==
  /\ mainpc = "dedup"
  /\ final_csv' = remove_duplicates(temp_csv)
  /\ mainpc' = "done"
  /\ UNCHANGED <<listing, claims_requests, pc, locals, csv_lock, temp_csv,
                 writes, network>>

(***************************************************************************)
(* process_fortification, one task of the pool                             *)
(***************************************************************************)

\* worker_available of a pool that starts a thread for every task
worker_available_always == TRUE

\* line 236: the pool has at most max_workers threads, and a thread runs one
\* task at a time
worker_available == Cardinality({j \in Tasks : Running(j)}) < max_workers

\* a worker thread takes the task off the work queue (first in, first out;
\* at most max_workers threads) and runs lines 145-149
Start(i) ==
  /\ pc[i] = "queued"
  /\ \A j \in 1..(i - 1) : pc[j] # "queued"
  /\ worker_available
  /\ proper_name' =
       [proper_name EXCEPT ![i] =
          extract_proper_name_from_url(fortification_links[i].url,
                                       fortification_links[i].name)]
  /\ pc' = [pc EXCEPT ![i] = "getid"]
  /\ UNCHANGED <<mainpc, listing, claims_requests, wikidata_id, lat, lon,
                 google_maps_link, csv_lock, files, network>>

\* has_wikidata_id with the test of line 153 missing
has_wikidata_id_unchecked(id) == TRUE

\* line 153: if wikidata_id
has_wikidata_id(id) == Truthy(id)

\* GetWikidataId without the try of line 65: an exception of the request
\* leaves the task and ends main
GetWikidataId_uncaught(i) ==
  /\ pc[i] = "getid"
  /\ \E r \in PageAnswers(fortification_links[i].url) :
       LET page == Page(fortification_links[i].url, r)
           id == get_wikidata_id_from_wikipedia(page)
       IN  /\ wikidata_id' = [wikidata_id EXCEPT ![i] = id]
           /\ pc' = [pc EXCEPT ![i] = IF has_wikidata_id(id) THEN "getcoord"
                                      ELSE "sleep"]
           /\ mainpc' = IF page.raises THEN "aborted" ELSE mainpc
           /\ web' = IF deterministic
                     THEN [web EXCEPT ![fortification_links[i].url] = r]
                     ELSE web
  /\ UNCHANGED <<listing, claims_requests, proper_name, lat, lon,
                 google_maps_link, csv_lock, files, deterministic, wikidata>>

\* GetWikidataId with a return in the else branch of lines 169-170: the task
\* without an id ends before line 173
GetWikidataId_no_pause(i) ==
  /\ pc[i] = "getid"
  /\ \E r \in PageAnswers(fortification_links[i].url) :
       LET id == get_wikidata_id_from_wikipedia(
                   Page(fortification_links[i].url, r))
       IN  /\ wikidata_id' =
                [wikidata_id EXCEPT ![i] = IF has_wikidata_id(id) THEN id
                                           ELSE None]
           /\ pc' = [pc EXCEPT ![i] = IF has_wikidata_id(id) THEN "getcoord"
                                      ELSE "done"]
           /\ proper_name' =
                [proper_name EXCEPT ![i] = IF has_wikidata_id(id) THEN @
                                           ELSE None]
           /\ web' = IF deterministic
                     THEN [web EXCEPT ![fortification_links[i].url] = r]
                     ELSE web
  /\ UNCHANGED <<mainpc, listing, claims_requests, lat, lon,
                 google_maps_link, csv_lock, files, deterministic, wikidata>>

\* lines 152-153 and 169-170
GetWikidataId(i) ==
  /\ pc[i] = "getid"
  /\ \E r \in PageAnswers(fortification_links[i].url) :
       LET id == get_wikidata_id_from_wikipedia(
                   Page(fortification_links[i].url, r))
       IN  /\ wikidata_id' = [wikidata_id EXCEPT ![i] = id]
           /\ pc' = [pc EXCEPT ![i] = IF has_wikidata_id(id) THEN "getcoord"
                                      ELSE "sleep"]
           /\ web' = IF deterministic
                     THEN [web EXCEPT ![fortification_links[i].url] = r]
                     ELSE web
  /\ UNCHANGED <<mainpc, listing, claims_requests, proper_name, lat, lon,
                 google_maps_link, csv_lock, files, deterministic, wikidata>>

\* has_coordinates with the test of line 163 missing
has_coordinates_unchecked(la, lo) == TRUE

\* line 163: if lat and lon
has_coordinates(la, lo) == Truthy(la) /\ Truthy(lo)

\* lines 157-163 and 167-168; a call that sends no request gets no answer
GetCoordinates(i) ==
  /\ pc[i] = "getcoord"
  /\ \E r \in (IF issues_request(wikidata_id[i])
               THEN ClaimsAnswers(wikidata_id[i]) ELSE {"absent"}) :
       LET coords == get_coordinates_from_wikidata(
                       wikidata_id[i], Claims(wikidata_id[i], r))
       IN  /\ lat' = [lat EXCEPT ![i] = coords[1]]
           /\ lon' = [lon EXCEPT ![i] = coords[2]]
           /\ google_maps_link' =
                [google_maps_link EXCEPT
                   ![i] = create_google_maps_link(coords[1], coords[2])]
           /\ pc' = [pc EXCEPT ![i] = IF has_coordinates(coords[1], coords[2])
                                      THEN "lock" ELSE "sleep"]
           /\ wikidata' = IF deterministic /\ issues_request(wikidata_id[i])
                          THEN [wikidata EXCEPT ![wikidata_id[i]] = r]
                          ELSE wikidata
           /\ claims_requests' =
                IF issues_request(wikidata_id[i])
                THEN claims_requests \cup {<<i, wikidata_id[i]>>}
                ELSE claims_requests
  /\ UNCHANGED <<mainpc, listing, proper_name, wikidata_id,
                 csv_lock, files, deterministic, web>>

\* lock_is_free of a lock that excludes nobody
lock_is_free_always == TRUE

\* lock_is_free of a lock that was acquired and never released
lock_is_free_never == FALSE

\* threading.Lock: acquire returns only when no thread holds the lock
lock_is_free == csv_lock = 0

\* line 164: with csv_lock
Acquire(i) ==
  /\ pc[i] = "lock"
  /\ lock_is_free
  /\ csv_lock' = i
  /\ pc' = [pc EXCEPT ![i] = "write"]
  /\ UNCHANGED <<mainpc, listing, claims_requests, locals, files, network>>

\* csv_row with the reference of the first candidate in the last column
csv_row_first_reference(i) ==
  <<CsvField(proper_name[i]), CsvField(lat[i]), CsvField(lon[i]),
    CsvField(google_maps_link[i]), CsvField(fortification_links[1].url)>>

\* csv_row with name, the link text, where line 165 has proper_name
csv_row_link_text(i) ==
  <<CsvField(fortification_links[i].name), CsvField(lat[i]), CsvField(lon[i]),
    CsvField(google_maps_link[i]), CsvField(fortification_links[i].url)>>

\* line 165, the row as the file holds it
csv_row(i) ==
  <<CsvField(proper_name[i]), CsvField(lat[i]), CsvField(lon[i]),
    CsvField(google_maps_link[i]), CsvField(fortification_links[i].url)>>

\* WriteRow with line 173 inside the with block: the task goes to its pause
\* with the lock
WriteRow_pause_inside(i) ==
  /\ pc[i] = "write"
  /\ temp_csv' = Append(temp_csv, csv_row(i))
  /\ writes' = Append(writes, i)
  /\ pc' = [pc EXCEPT ![i] = "sleep"]
  /\ UNCHANGED <<mainpc, listing, claims_requests, locals, csv_lock, final_csv,
                 network>>

\* lines 165-166: writerow, and the lock released at the end of the with block
WriteRow(i) ==
  /\ pc[i] = "write"
  /\ temp_csv' = Append(temp_csv, csv_row(i))
  /\ writes' = Append(writes, i)
  /\ csv_lock' = 0
  /\ pc' = [pc EXCEPT ![i] = "sleep"]
  /\ UNCHANGED <<mainpc, listing, claims_requests, locals, final_csv, network>>

\* line 173: time.sleep(0.1), and the task returns; its locals are gone
Sleep(i) ==
  /\ pc[i] = "sleep"
  /\ pc' = [pc EXCEPT ![i] = "done"]
  /\ proper_name' = [proper_name EXCEPT ![i] = None]
  /\ wikidata_id' = [wikidata_id EXCEPT ![i] = None]
  /\ lat' = [lat EXCEPT ![i] = None]
  /\ lon' = [lon EXCEPT ![i] = None]
  /\ google_maps_link' = [google_maps_link EXCEPT ![i] = None]
  /\ UNCHANGED <<mainpc, listing, claims_requests, csv_lock, files, network>>

Next ==
  \/ FetchListing
  \/ FilterLinks
  \/ OpenTemp
  \/ Submit
  \/ Wait
  \/ RemoveDuplicates
  \/ \E i \in Tasks : Start(i)
  \/ \E i \in Tasks : GetWikidataId(i)
  \/ \E i \in Tasks : GetCoordinates(i)
  \/ \E i \in Tasks : Acquire(i)
  \/ \E i \in Tasks : WriteRow(i)
  \/ \E i \in Tasks : Sleep(i)

Spec == Init /\ [][Next]_vars

SpecDet == InitDet /\ [][Next]_vars

\* the thread of task i can take its next step: a worker of the pool is there
\* for the task at the head of the queue, the lock is free for the task that
\* wants it, and every other step waits for nothing but a request to return
can_step(i) ==
  /\ i \in Tasks
  /\ \/ /\ pc[i] = "queued"
        /\ \A j \in 1..(i - 1) : pc[j] # "queued"
        /\ worker_available
     \/ pc[i] = "lock" /\ lock_is_free
     \/ pc[i] \in {"getid", "getcoord", "write", "sleep"}

\* a step of task i
steps(i) == i \in DOMAIN pc /\ i \in DOMAIN pc' /\ pc'[i] # pc[i]

\* Every request returns, with an answer or an exception, and the operating
\* system runs every thread that can run: main (lines 209-247) takes its next
\* step, and so does each task (lines 143-173), if it stays possible.  The
\* lock makes no promise of order, and needs none: a task takes it once.
\* WF_vars(A) is []<>~ENABLED <<A>>_vars \/ []<><<A>>_vars; for the loop of
\* main and for the steps of a task it is written out, with the condition
\* that enables the step in the place of ENABLED.
Fairness ==
  /\ \/ []<>(mainpc # "filter")
     \/ []<><<mainpc = "filter" /\ mainpc' = "open">>_vars
  /\ WF_vars(OpenTemp)
  /\ WF_vars(Submit)
  /\ WF_vars(Wait)
  /\ WF_vars(RemoveDuplicates)
  /\ \A i \in 1..MaxLinks : []<>(~can_step(i)) \/ []<><<steps(i)>>_vars

SpecLive == Init /\ [][Next]_vars /\ Fairness

(***************************************************************************)
(* remove_duplicates taken alone, on every input file of at most MaxRows   *)
(* rows, and run again on its own output                                   *)
(***************************************************************************)

\* rows with three URLs and two names
DedupRows ==
  {<<name, <<"1">>, <<"2">>, <<>>, url>> :
     name \in {<<"x">>, <<"y">>}, url \in {<<"A">>, <<"B">>, <<"C">>}}

DedupInputs ==
  UNION {[1..n -> DedupRows] : n \in 0..MaxRows}

InitDedup ==
  /\ mainpc = "dedup"
  /\ \E rows \in DedupInputs : temp_csv = <<csv_header>> \o rows
  /\ links = <<>>
  /\ fortification_links = <<>>
  /\ pc = <<>>
  /\ proper_name = <<>>
  /\ wikidata_id = <<>>
  /\ lat = <<>>
  /\ lon = <<>>
  /\ google_maps_link = <<>>
  /\ csv_lock = 0
  /\ final_csv = <<>>
  /\ writes = <<>>
  /\ claims_requests = {}
  /\ deterministic = FALSE
  /\ web = [u \in Urls |-> "?"]
  /\ wikidata = [q \in EntityIds |-> "?"]

\* remove_duplicates(final_csv, final_csv): the output file of a run is the
\* input file of the next; temp_csv keeps what that run read.  On a file
\* without a first row next(reader) raises and nothing is written.
RemoveDuplicatesAgain ==
  /\ mainpc = "done"
  /\ final_csv # <<>>
  /\ temp_csv' = final_csv
  /\ final_csv' = remove_duplicates(final_csv)
  /\ mainpc' = "again"
  /\ UNCHANGED <<listing, claims_requests, pc, locals, csv_lock, writes,
                 network>>

NextDedup == RemoveDuplicates \/ RemoveDuplicatesAgain

SpecDedup == InitDedup /\ [][NextDedup]_vars

(***************************************************************************)
(* The pool taken alone: a listing page with up to MaxTasks accepted links *)
(* while no page can be fetched, so that every task ends without a row     *)
(***************************************************************************)

\* the most candidates of a run of the pool taken alone
MaxTasks == 11

\* the candidates of a page that repeats the accepted links of PageLinks
PoolCandidates(n) ==
  LET accepted == filter_links(PageLinks)
  IN  [k \in 1..n |-> accepted[((k - 1) % Len(accepted)) + 1]]

\* main after line 225, before the temporary file is opened
InitPool ==
  /\ mainpc = "open"
  /\ links = <<>>
  /\ \E n \in 0..MaxTasks :
       /\ fortification_links = PoolCandidates(n)
       /\ pc = [i \in 1..n |-> "unsubmitted"]
       /\ proper_name = [i \in 1..n |-> None]
       /\ wikidata_id = [i \in 1..n |-> None]
       /\ lat = [i \in 1..n |-> None]
       /\ lon = [i \in 1..n |-> None]
       /\ google_maps_link = [i \in 1..n |-> None]
  /\ csv_lock = 0
  /\ temp_csv = <<>>
  /\ final_csv = <<>>
  /\ writes = <<>>
  /\ claims_requests = {}
  /\ deterministic = TRUE
  /\ web = [u \in Urls |-> "raise"]
  /\ wikidata = [q \in EntityIds |-> "?"]

\* lines 152-173 in one step for a task whose page cannot be fetched:
\* GetWikidataId(i), which finds no id, and then Sleep(i)
ProcessUnfetched(i) ==
  /\ pc[i] = "getid"
  /\ PageAnswers(fortification_links[i].url) = {"raise"}
  /\ ~Truthy(get_wikidata_id_from_wikipedia(
               Page(fortification_links[i].url, "raise")))
  /\ pc' = [pc EXCEPT ![i] = "done"]
  /\ proper_name' = [proper_name EXCEPT ![i] = None]
  /\ UNCHANGED <<mainpc, listing, claims_requests, wikidata_id, lat, lon,
                 google_maps_link, csv_lock, files, network>>

NextPool ==
  \/ OpenTemp
  \/ Submit
  \/ Wait
  \/ RemoveDuplicates
  \/ \E i \in Tasks : Start(i)
  \/ \E i \in Tasks : ProcessUnfetched(i)

SpecPool == InitPool /\ [][NextPool]_vars

(***************************************************************************)
(* extract_proper_name_from_url taken alone: one call for every URL of     *)
(* NameUrls with every name of CurrentNames                                *)
(***************************************************************************)

\* article parts of URLs: with a blank and with escapes, with one and with two
\* parenthesised suffixes, nothing but a suffix, with and without a
\* fortification type
NameTails ==
  {
    <<"F","o","r","t","e","_","d","e","_","S","ã","o","_","J","o","ã","o"," ","(","L","i","s","b","o","a",")">>,
    <<"F","o","r","t","e","_","d","e","_","S","%","C","3","%","A","3","o","_","J","o","%","C","3","%","A","3","o","_","(","L","i","s","b","o","a",")">>,
    <<"T","o","r","r","e","_","A">>,
    <<"F","a","r","o">>,
    <<"C","a","s","t","e","l","o","_","d","e","_","F","a","r","o","_","(","A",")","_","(","B",")">>,
    <<"(","F","a","r","o",")">>,
    <<"P","r","a","ç","a","-","f","o","r","t","e","_","d","e","_","E","l","v","a","s">>,
    <<"F","o","z">>
  }

\* the URLs of these articles, and a url that is not a string
NameUrls == {base_url \o wiki_sep \o t : t \in NameTails} \cup {None}

\* link texts, and a name that is not a string
CurrentNames ==
  {
    <<"S","ã","o"," ","J","o","ã","o">>,
    <<"F","o","r","t","e"," ","d","e"," ","S","ã","o"," ","J","o","ã","o">>,
    <<"f","o","r","t","e"," ","d","e"," ","s","ã","o"," ","j","o","ã","o">>,
    <<"T","o","r","r","e">>,
    <<"t","o","r","r","e"," ","a">>,
    <<"F","A","R","O">>,
    <<"C","a","s","t","e","l","o"," ","d","e"," ","F","a","r","o">>,
    <<"E","l","v","a","s">>,
    <<>>,
    None
  }

\* one call, waiting to be run
InitName ==
  /\ mainpc = "submit"
  /\ links = <<>>
  /\ \E u \in NameUrls, n \in CurrentNames :
       fortification_links = <<[name |-> n, url |-> u]>>
  /\ pc = <<"queued">>
  /\ proper_name = <<None>>
  /\ wikidata_id = <<None>>
  /\ lat = <<None>>
  /\ lon = <<None>>
  /\ google_maps_link = <<None>>
  /\ csv_lock = 0
  /\ temp_csv = <<csv_header>>
  /\ final_csv = <<>>
  /\ writes = <<>>
  /\ claims_requests = {}
  /\ deterministic = FALSE
  /\ web = [u \in Urls |-> "?"]
  /\ wikidata = [q \in EntityIds |-> "?"]

NextName == \E i \in Tasks : Start(i)

SpecName == InitName /\ [][NextName]_vars

(***************************************************************************)
(* is_fortification taken alone: the loop of main on a page of one link,   *)
(* for every reference of ClassifierHrefs with every text of               *)
(* ClassifierTexts                                                         *)
(***************************************************************************)

\* references of articles: with a keyword in upper case, with the keyword
\* fortificação escaped and not escaped, with a keyword in the plural, and
\* without a keyword
ClassifierHrefs ==
  {
    <<"/","w","i","k","i","/","B","e","l","%","C","3","%","A","9","m">>,
    <<"/","w","i","k","i","/","H","i","s","t","%","C","3","%","B","3","r","i","a","_","d","e","_","P","o","r","t","u","g","a","l">>,
    <<"/","w","i","k","i","/","T","O","R","R","E","_","X">>,
    <<"/","w","i","k","i","/","F","o","r","t","i","f","i","c","a","%","C","3","%","A","7","%","C","3","%","A","3","o">>,
    <<"/","w","i","k","i","/","F","o","r","t","i","f","i","c","a","ç","ã","o">>,
    <<"/","w","i","k","i","/","F","a","r","o">>,
    <<"/","w","i","k","i","/","M","u","r","a","l","h","a","s","_","d","e","_","X">>,
    <<"/","w","i","k","i","/","P","a","l","%","C","3","%","A","1","c","i","o","_","d","a","_","P","e","n","a">>
  }

\* link texts: with a keyword, in upper case, inside a word, and without one
ClassifierTexts ==
  {
    <<"T","o","r","r","e"," ","d","e"," ","B","e","l","é","m">>,
    <<"H","i","s","t","ó","r","i","a"," ","d","e"," ","P","o","r","t","u","g","a","l">>,
    <<"F","O","R","T","I","F","I","C","A","Ç","Ã","O">>,
    <<"C","o","n","f","o","r","t","e">>,
    <<"O","b","r","a">>,
    <<"R","e","d","u","t","o">>,
    <<"X">>,
    <<" ","B","a","l","u","a","r","t","e"," ">>
  }

\* main before the loop of line 212, the page has one link
InitClassify ==
  /\ mainpc = "filter"
  /\ \E h \in ClassifierHrefs, t \in ClassifierTexts :
       links = <<[href |-> h, text |-> t]>>
  /\ fortification_links = <<>>
  /\ pc = <<>>
  /\ proper_name = <<>>
  /\ wikidata_id = <<>>
  /\ lat = <<>>
  /\ lon = <<>>
  /\ google_maps_link = <<>>
  /\ csv_lock = 0
  /\ temp_csv = <<>>
  /\ final_csv = <<>>
  /\ writes = <<>>
  /\ claims_requests = {}
  /\ deterministic = FALSE
  /\ web = [u \in Urls |-> "?"]
  /\ wikidata = [q \in EntityIds |-> "?"]

NextClassify == FilterLinks

SpecClassify == InitClassify /\ [][NextClassify]_vars

(***************************************************************************)
(* main from the loop of line 212 to the end of the with block of line     *)
(* 236, on every page of one or two links of DispatchLinks                 *)
(***************************************************************************)

\* links of the page: to a template with its name escaped, as the page
\* writes a name that is not ASCII, and with its name not escaped; to a talk
\* page, escaped; to an article with Lista_de_ inside its title; to an
\* article, with a text and with a blank text; to an article without a
\* keyword; and to a page outside /wiki/
DispatchLinks ==
  {
    [href |-> <<"/","w","i","k","i","/","P","r","e","d","e","f","i","n","i","%","C","3","%","A","7","%","C","3","%","A","3","o",":","C","a","s","t","e","l","o","s">>,
     text |-> <<"C","a","s","t","e","l","o","s"," ","d","e"," ","P","o","r","t","u","g","a","l">>],
    [href |-> <<"/","w","i","k","i","/","P","r","e","d","e","f","i","n","i","ç","ã","o",":","C","a","s","t","e","l","o","s">>,
     text |-> <<"C","a","s","t","e","l","o","s"," ","d","e"," ","P","o","r","t","u","g","a","l">>],
    [href |-> <<"/","w","i","k","i","/","D","i","s","c","u","s","s","%","C","3","%","A","3","o",":","T","o","r","r","e","_","A">>,
     text |-> <<"D","i","s","c","u","s","s","ã","o">>],
    [href |-> <<"/","w","i","k","i","/","F","o","r","t","e","_","d","a","_","L","i","s","t","a","_","d","e","_","E","s","p","e","r","a">>,
     text |-> <<"F","o","r","t","e"," ","d","a"," ","L","i","s","t","a"," ","d","e"," ","E","s","p","e","r","a">>],
    [href |-> <<"/","w","i","k","i","/","T","o","r","r","e","_","A">>,
     text |-> <<"T","o","r","r","e"," ","A">>],
    [href |-> <<"/","w","i","k","i","/","T","o","r","r","e","_","A">>,
     text |-> <<" ">>],
    [href |-> <<"/","w","i","k","i","/","F","a","r","o">>,
     text |-> <<"F","a","r","o">>],
    [href |-> <<"/","w","/","i","n","d","e","x",".","p","h","p","?","t","i","t","l","e","=","T","o","r","r","e","_","A">>,
     text |-> <<"T","o","r","r","e"," ","A">>]
  }

\* main before the loop of line 212
InitDispatch ==
  /\ mainpc = "filter"
  /\ \E a \in DispatchLinks :
       \/ links = <<a>>
       \/ \E b \in DispatchLinks : links = <<a, b>>
  /\ fortification_links = <<>>
  /\ pc = <<>>
  /\ proper_name = <<>>
  /\ wikidata_id = <<>>
  /\ lat = <<>>
  /\ lon = <<>>
  /\ google_maps_link = <<>>
  /\ csv_lock = 0
  /\ temp_csv = <<>>
  /\ final_csv = <<>>
  /\ writes = <<>>
  /\ claims_requests = {}
  /\ deterministic = FALSE
  /\ web = [u \in Urls |-> "?"]
  /\ wikidata = [q \in EntityIds |-> "?"]

NextDispatch == FilterLinks \/ OpenTemp \/ Submit \/ Wait

SpecDispatch == InitDispatch /\ [][NextDispatch]_vars

(***************************************************************************)
(* Properties                                                              *)
(***************************************************************************)

\* the data rows of a file
data_rows(file) == IF file = <<>> THEN <<>> ELSE Tail(file)

\* the references of the data rows of a file
references(file) == {data_rows(file)[k][5] : k \in 1..Len(data_rows(file))}

\* C1: after a complete run the references of the rows of the final file are
\* pairwise distinct.
C1_FinalReferencesDistinct ==
  mainpc = "done" =>
    \A j, k \in 1..Len(data_rows(final_csv)) :
      data_rows(final_csv)[j][5] = data_rows(final_csv)[k][5] => j = k

\* a complete run in which the same reference was appended to the temporary
\* file twice
C1_Witness ==
  /\ mainpc = "done"
  /\ \E j, k \in 1..Len(data_rows(temp_csv)) :
       j # k /\ data_rows(temp_csv)[j][5] = data_rows(temp_csv)[k][5]
  /\ Len(data_rows(final_csv)) >= 1

\* the indices of the input rows that no earlier input row shares the
\* reference of
first_occurrences(rows) ==
  {k \in 1..Len(rows) : \A j \in 1..(k - 1) : rows[j][5] # rows[k][5]}

\* C3: the output of remove_duplicates is the subsequence of its input made of
\* the first row of each reference: as many rows as there are first
\* occurrences, the n-th output row is the n-th first occurrence unchanged, and
\* the output has every reference of the input.
C3_KeepsFirstOccurrences ==
  mainpc \in {"done", "again"} =>
    LET rows == data_rows(temp_csv)
        out == data_rows(final_csv)
        K == first_occurrences(rows)
    IN  /\ Len(out) = Cardinality(K)
        /\ \A k \in K : out[Cardinality({j \in K : j <= k})] = rows[k]
        /\ references(final_csv) = references(temp_csv)

\* the input has the references A, B, A, C in this order and the output has
\* A, B, C
C3_Witness ==
  /\ mainpc = "done"
  /\ Len(data_rows(temp_csv)) = 4
  /\ [k \in 1..4 |-> data_rows(temp_csv)[k][5]]
       = <<(<<"A">>), (<<"B">>), (<<"A">>), (<<"C">>)>>
  /\ data_rows(temp_csv)[1] # data_rows(temp_csv)[3]
  /\ [k \in 1..Len(data_rows(final_csv)) |-> data_rows(final_csv)[k][5]]
       = <<(<<"A">>), (<<"B">>), (<<"C">>)>>

\* C4: remove_duplicates run on its own output writes that output again.
C4_Idempotent == mainpc = "again" => final_csv = temp_csv

\* the second run has happened, on an output of two rows or more
C4_Witness ==
  /\ mainpc = "again"
  /\ Len(data_rows(final_csv)) >= 2

\* the tasks a worker thread has taken
started == {i \in Tasks : pc[i] \notin {"unsubmitted", "queued"}}

\* the tasks that have called writerow
writers == {writes[k] : k \in 1..Len(writes)}

\* C2: every data row of the temporary and of the final file has a latitude
\* and a longitude that are not empty; what the coordinate lookup returned to a
\* task is a full pair or None, None; a task at the append has both.
C2_RowsHaveCoordinates ==
  /\ \A k \in 1..Len(data_rows(temp_csv)) :
       data_rows(temp_csv)[k][2] # <<>> /\ data_rows(temp_csv)[k][3] # <<>>
  /\ \A k \in 1..Len(data_rows(final_csv)) :
       data_rows(final_csv)[k][2] # <<>> /\ data_rows(final_csv)[k][3] # <<>>
  /\ \A i \in Tasks :
       \/ lat[i] = None /\ lon[i] = None
       \/ Truthy(lat[i]) /\ Truthy(lon[i])
  /\ \A i \in Tasks :
       pc[i] \in {"lock", "write"} => Truthy(lat[i]) /\ Truthy(lon[i])

\* a row with latitude 0.0 is in the temporary file while another task, whose
\* coordinate lookup failed, is about to return without a row
C2_Witness ==
  /\ \E k \in 1..Len(data_rows(temp_csv)) :
       data_rows(temp_csv)[k][2] = <<"0", ".", "0">>
  /\ \E i \in Tasks :
       /\ pc[i] = "sleep"
       /\ Truthy(wikidata_id[i])
       /\ lat[i] = None
       /\ i \notin writers

\* C5: no two tasks are inside the append at the same time, and the task
\* inside it is the holder of csv_lock.
C5_MutualExclusion ==
  /\ \A i, j \in Tasks : pc[i] = "write" /\ pc[j] = "write" => i = j
  /\ \A i \in Tasks : pc[i] = "write" <=> csv_lock = i

\* a task is inside the append while another waits for the lock
C5_Witness ==
  \E i, j \in Tasks : pc[i] = "write" /\ pc[j] = "lock"

\* C6: a task calls writerow at most once; a task that is past its append
\* has called it exactly when it got an entity id and both coordinates; the
\* temporary file has one data row per call, never more than tasks started,
\* and the k-th row has the URL of the candidate of the task that wrote it.
C6_AtMostOneRowPerTask ==
  /\ \A j, k \in 1..Len(writes) : writes[j] = writes[k] => j = k
  /\ \A i \in Tasks :
       pc[i] = "sleep" =>
         (i \in writers <=>
            Truthy(wikidata_id[i]) /\ Truthy(lat[i]) /\ Truthy(lon[i]))
  /\ \A i \in Tasks : i \in writers => pc[i] \in {"sleep", "done"}
  /\ mainpc \in {"submit", "dedup", "done"} =>
       /\ Len(data_rows(temp_csv)) = Len(writes)
       /\ Len(data_rows(temp_csv)) <= Cardinality(started)
       /\ \A k \in 1..Len(writes) :
            data_rows(temp_csv)[k][5] = fortification_links[writes[k]].url

\* three tasks have returned: one wrote its row, two did not, and the row is
\* not that of the first candidate
C6_Witness ==
  /\ Cardinality({i \in Tasks : pc[i] = "done"}) = 3
  /\ Len(writes) = 1
  /\ writes[1] # 1
  /\ fortification_links[writes[1]].url # fortification_links[1].url

\* C7: remove_duplicates does not start before every task has returned, and
\* the final file is made from every row the tasks appended.
C7_Barrier ==
  /\ mainpc \in {"dedup", "done"} => \A i \in Tasks : pc[i] = "done"
  /\ mainpc = "done" =>
       /\ final_csv = remove_duplicates(temp_csv)
       /\ Len(data_rows(temp_csv)) = Len(writes)
       /\ \A k \in 1..Len(writes) :
            data_rows(temp_csv)[k][5] \in references(final_csv)

\* main is about to run remove_duplicates after two tasks appended a row
C7_Witness ==
  /\ mainpc = "dedup"
  /\ Len(writes) >= 2

\* how many data rows of a file have the reference u
rows_of(file, u) ==
  Cardinality({k \in 1..Len(data_rows(file)) : data_rows(file)[k][5] = u})

\* how many candidates have the reference u
candidates_of(u) ==
  Cardinality({i \in Tasks : fortification_links[i].url = u})

\* Under SpecDet: the page at u names its entity, by the link or by the
\* script, and the entity has a coordinate claim.
Resolvable(u) ==
  /\ web[u] \in {"link", "script"}
  /\ wikidata[entity_of(u)] = "coords"

\* C8: with answers that are the same every time, the final file has exactly
\* one row for each reference of a candidate whose page names an entity that
\* has a coordinate claim, and no row for any other reference.
C8_OneRowPerResolvableReference ==
  mainpc = "done" =>
    /\ references(final_csv) \subseteq Urls
    /\ \A u \in Urls :
         rows_of(final_csv, u) =
           IF candidates_of(u) > 0 /\ Resolvable(u) THEN 1 ELSE 0

\* two candidates, the page of the first names an entity with coordinates and
\* the page of the second names none: the final file has the first one's row
C8_Witness ==
  /\ mainpc = "done"
  /\ Len(fortification_links) = 2
  /\ Resolvable(fortification_links[1].url)
  /\ web[fortification_links[2].url] = "none"
  /\ Len(data_rows(final_csv)) = 1
  /\ data_rows(final_csv)[1][5] = fortification_links[1].url

\* Under SpecDet, once the answers are known: the row process_fortification
\* writes for candidate c
expected_row(c) ==
  LET id == get_wikidata_id_from_wikipedia(Page(c.url, web[c.url]))
      coords == get_coordinates_from_wikidata(id, Claims(id, wikidata[id]))
  IN  <<extract_proper_name_from_url(c.url, c.name), coords[1], coords[2],
        create_google_maps_link(coords[1], coords[2]), c.url>>

\* the rows the candidates write when the tasks run one after the other, in
\* the order of submission
RECURSIVE sequential_rows(_)
sequential_rows(cs) ==
  IF cs = <<>> THEN <<>>
  ELSE (IF Resolvable(Head(cs).url) THEN <<expected_row(Head(cs))>> ELSE <<>>)
       \o sequential_rows(Tail(cs))

\* the final file of that run, which is one of the interleavings
sequential_final ==
  remove_duplicates(<<csv_header>> \o sequential_rows(fortification_links))

row_set(file) == {data_rows(file)[k] : k \in 1..Len(data_rows(file))}

\* a row without its name
without_name(row) == <<row[2], row[3], row[4], row[5]>>

\* C9 as claimed: with the same candidates and answers every interleaving
\* ends with the same set of rows, that of the run that takes the tasks one
\* after the other.
C9_SameRowsInEveryInterleaving ==
  mainpc = "done" => row_set(final_csv) = row_set(sequential_final)

\* C9 as amended: every interleaving ends with the same number of rows and
\* the same set of (latitude, longitude, map link, reference); every row is the
\* row of one of the candidates, so its name is the resolved name of one of
\* the candidates that have its reference; and the sets of rows are the same
\* when candidates with the same reference resolve to the same name.
C9_SameRowsUpToName ==
  mainpc = "done" =>
    /\ Len(final_csv) = Len(sequential_final)
    /\ {without_name(r) : r \in row_set(final_csv)}
         = {without_name(r) : r \in row_set(sequential_final)}
    /\ \A r \in row_set(final_csv) :
         \E i \in Tasks : r = expected_row(fortification_links[i])
    /\ (\A i, j \in Tasks :
          fortification_links[i].url = fortification_links[j].url =>
            extract_proper_name_from_url(fortification_links[i].url,
                                         fortification_links[i].name)
            = extract_proper_name_from_url(fortification_links[j].url,
                                           fortification_links[j].name))
       => row_set(final_csv) = row_set(sequential_final)

\* a complete run of two candidates with one reference and two names in
\* which the second candidate's row came first, beside a third candidate
\* whose name was resolved from its URL
C9_Witness ==
  /\ mainpc = "done"
  /\ Len(writes) = 3
  /\ writes[1] = 2
  /\ fortification_links[1].url = fortification_links[2].url
  /\ row_set(final_csv) # row_set(sequential_final)
  /\ \E r \in row_set(final_csv) :
       r[1] # fortification_links[3].name /\ r[5] = fortification_links[3].url

\* C10: main is ended by an exception only when the listing page cannot be
\* fetched, before there is any candidate; whatever the requests of a
\* candidate do, every task returns before remove_duplicates runs, a
\* reference whose lookups fail has no row in the temporary file, a reference
\* whose lookups succeed has one row per candidate, and every row is the row
\* of the candidate that wrote it.
C10_SoftFailuresIsolated ==
  /\ mainpc = "aborted" => fortification_links = <<>> /\ temp_csv = <<>>
  /\ mainpc \in {"dedup", "done"} =>
       /\ \A i \in Tasks : pc[i] = "done"
       /\ \A u \in Urls :
            rows_of(temp_csv, u) = IF Resolvable(u) THEN candidates_of(u) ELSE 0
       /\ \A k \in 1..Len(writes) :
            data_rows(temp_csv)[k] = expected_row(fortification_links[writes[k]])

\* a complete run in which the page request of one candidate raised, the
\* entity of another had no coordinate claim, and a third has its row in the
\* final file
C10_Witness ==
  /\ mainpc = "done"
  /\ \E i, j, k \in Tasks :
       /\ web[fortification_links[i].url] = "raise"
       /\ web[fortification_links[j].url] \in {"link", "script"}
       /\ wikidata[entity_of(fortification_links[j].url)] = "absent"
       /\ Resolvable(fortification_links[k].url)
       /\ fortification_links[k].url \in references(final_csv)

\* the positions of a task, in the order process_fortification takes them
step_order ==
  <<"unsubmitted", "queued", "getid", "getcoord", "lock", "write", "sleep",
    "done">>

position(p) == CHOOSE k \in 1..Len(step_order) : step_order[k] = p

\* C11: at most max_workers tasks are executing at the same time, however
\* many candidates were submitted; a task never goes back to an earlier
\* position and starts only from the work queue, so it runs at most once; and
\* when main is past the wait every candidate has a task that has returned.
C11_BoundedPool ==
  /\ [](Cardinality({i \in Tasks : Running(i)}) <= max_workers)
  /\ [](Len(pc) = Len(fortification_links))
  /\ [](mainpc \in {"dedup", "done"} => \A i \in Tasks : pc[i] = "done")
  /\ [][\A i \in DOMAIN pc :
          /\ i \in DOMAIN pc'
          /\ position(pc'[i]) >= position(pc[i])
          /\ (pc'[i] = "getid" /\ pc[i] # "getid" => pc[i] = "queued")]_vars

\* max_workers tasks are executing while one more waits in the work queue
C11_Witness ==
  /\ Cardinality({i \in Tasks : Running(i)}) = max_workers
  /\ \E i \in Tasks : pc[i] = "queued"

\* the address of the map service, before the query
map_service ==
  <<"h","t","t","p","s",":","/","/","w","w","w",".","g","o","o","g","l","e",".","c","o","m","/","m","a","p","s">>

\* the map link of a latitude and a longitude that are present
link_to(la, lo) == map_service \o <<"?", "q", "=">> \o la \o <<",">> \o lo

\* what get_coordinates_from_wikidata can return
CoordinatePairs ==
  {get_coordinates_from_wikidata(q, Claims(q, r)) :
     q \in EntityIds, r \in ClaimsNames}

\* C12: create_google_maps_link gives the empty string for None, None and
\* for a latitude and a longitude the address of the map service followed by
\* ?q=, the latitude, a comma and the longitude; the link a task holds is the
\* link of its own latitude and longitude; and every data row of the
\* temporary and of the final file has a link that is not empty and is the
\* link of the latitude and the longitude of that row.
C12_MapLinkOfOwnCoordinates ==
  /\ create_google_maps_link(None, None) = <<>>
  /\ \A c \in CoordinatePairs :
       create_google_maps_link(c[1], c[2]) =
         IF c = <<None, None>> THEN <<>> ELSE link_to(c[1], c[2])
  /\ \A i \in Tasks :
       google_maps_link[i] # None =>
         google_maps_link[i] =
           IF lat[i] = None THEN <<>> ELSE link_to(lat[i], lon[i])
  /\ \A file \in {temp_csv, final_csv} :
       \A k \in 1..Len(data_rows(file)) :
         /\ data_rows(file)[k][4] # <<>>
         /\ data_rows(file)[k][4] =
              link_to(data_rows(file)[k][2], data_rows(file)[k][3])

\* the temporary file has the row of 38.7, -9.1 with its link and the row of
\* 0.0, 0 with its link, while a task that got no coordinates holds the
\* empty link
C12_Witness ==
  /\ \E k \in 1..Len(data_rows(temp_csv)) :
       /\ data_rows(temp_csv)[k][2] = <<"3","8",".","7">>
       /\ data_rows(temp_csv)[k][3] = <<"-","9",".","1">>
       /\ data_rows(temp_csv)[k][4] =
            <<"h","t","t","p","s",":","/","/","w","w","w",".","g","o","o","g","l","e",".","c","o","m","/","m","a","p","s","?","q","=","3","8",".","7",",","-","9",".","1">>
  /\ \E k \in 1..Len(data_rows(temp_csv)) :
       /\ data_rows(temp_csv)[k][2] = <<"0",".","0">>
       /\ data_rows(temp_csv)[k][3] = <<"0">>
  /\ \E i \in Tasks :
       pc[i] = "sleep" /\ lat[i] = None /\ google_maps_link[i] = <<>>

\* a fortification type is in the cleaned name and not in the current name,
\* both in lower case
type_only_in_url(url, current_name) ==
  \E k \in 1..Len(fort_types) :
    /\ Contains(Lower(clean_name(url)), fort_types[k])
    /\ ~Contains(Lower(current_name), fort_types[k])

\* the current name is a part of the cleaned name, both in lower case, and
\* the cleaned name is longer
part_of_url_name(url, current_name) ==
  /\ Contains(Lower(clean_name(url)), Lower(current_name))
  /\ Len(clean_name(url)) > Len(current_name)

\* C13: the name a call resolves is the cleaned name of the URL when that has
\* a fortification type the current name lacks or when the current name is a
\* part of it and shorter, and the current name in every other case and when
\* the extraction raises; the cleaned name of .../wiki/Forte_de_São_João
\* (Lisboa), with or without escapes, is Forte de São João, which is what
\* that URL and São João resolve to.
C13_ResolvedName ==
  /\ \A i \in Tasks :
       pc[i] = "getid" =>
         LET url == fortification_links[i].url
             current_name == fortification_links[i].name
         IN  proper_name[i] =
               IF url = None \/ current_name = None THEN current_name
               ELSE IF \/ type_only_in_url(url, current_name)
                       \/ part_of_url_name(url, current_name)
                 THEN clean_name(url)
               ELSE current_name
  /\ \A t \in {<<"F","o","r","t","e","_","d","e","_","S","ã","o","_","J","o","ã","o"," ","(","L","i","s","b","o","a",")">>,
              <<"F","o","r","t","e","_","d","e","_","S","%","C","3","%","A","3","o","_","J","o","%","C","3","%","A","3","o","_","(","L","i","s","b","o","a",")">>} :
       /\ clean_name(base_url \o wiki_sep \o t) =
            <<"F","o","r","t","e"," ","d","e"," ","S","ã","o"," ","J","o","ã","o">>
       /\ extract_proper_name_from_url(
            base_url \o wiki_sep \o t, <<"S","ã","o"," ","J","o","ã","o">>)
            = <<"F","o","r","t","e"," ","d","e"," ","S","ã","o"," ","J","o","ã","o">>
  /\ clean_name(base_url \o wiki_sep \o <<"C","a","s","t","e","l","o","_","d","e","_","F","a","r","o","_","(","A",")","_","(","B",")">>)
       = <<"C","a","s","t","e","l","o"," ","d","e"," ","F","a","r","o"," ","(","A",")">>

\* the call for .../wiki/Forte_de_São_João (Lisboa) and São João has resolved
\* Forte de São João
C13_Witness ==
  /\ pc = <<"getid">>
  /\ fortification_links[1].url =
       base_url \o wiki_sep \o <<"F","o","r","t","e","_","d","e","_","S","ã","o","_","J","o","ã","o"," ","(","L","i","s","b","o","a",")">>
  /\ fortification_links[1].name = <<"S","ã","o"," ","J","o","ã","o">>
  /\ proper_name[1] = <<"F","o","r","t","e"," ","d","e"," ","S","ã","o"," ","J","o","ã","o">>

\* a keyword of is_fortification occurs in s, whatever the case of s
keyword_in(s) ==
  \E k \in 1..Len(fortification_keywords) :
    Contains(Lower(s), fortification_keywords[k])

\* C14: a link of an article is kept by the loop of main exactly when a
\* keyword occurs in its name or in its reference, whatever the case; Torre de
\* Belém is a fortification, História de Portugal at a reference without a
\* keyword is not.
C14_RelevantIffKeyword ==
  /\ (mainpc = "open" /\ Len(links) = 1 /\ is_article_link(links[1])) =>
       LET c == candidate_of(links[1])
       IN  /\ fortification_links \in {<<>>, <<c>>}
           /\ fortification_links = <<c>> <=>
                (keyword_in(c.name) \/ keyword_in(c.url))
  /\ is_fortification(<<"T","o","r","r","e"," ","d","e"," ","B","e","l","é","m">>,
                      base_url \o <<"/","w","i","k","i","/","B","e","l","%","C","3","%","A","9","m">>)
  /\ ~is_fortification(
        <<"H","i","s","t","ó","r","i","a"," ","d","e"," ","P","o","r","t","u","g","a","l">>,
        base_url \o <<"/","w","i","k","i","/","H","i","s","t","%","C","3","%","B","3","r","i","a","_","d","e","_","P","o","r","t","u","g","a","l">>)

\* the loop has kept a link whose only keyword is in the reference, in
\* upper case
C14_Witness ==
  /\ mainpc = "open"
  /\ Len(links) = 1
  /\ links[1].href = <<"/","w","i","k","i","/","T","O","R","R","E","_","X">>
  /\ links[1].text = <<"O","b","r","a">>
  /\ Len(fortification_links) = 1

\* the tasks that have sent a wbgetclaims request
requesters == {q[1] : q \in claims_requests}

\* C15: every wbgetclaims request is for an entity id that is not None and
\* not empty, and is sent by a task that is past its page lookup; a task
\* whose page lookup gave no id is on its way out without a request and
\* without a row; a row is written only after a request; and
\* get_coordinates_from_wikidata called with None or with the empty string
\* returns None, None without a request, whatever the service would answer.
C15_NoRequestWithoutId ==
  /\ \A q \in claims_requests :
       /\ Truthy(q[2])
       /\ q[1] \in Tasks
       /\ pc[q[1]] \in {"lock", "write", "sleep", "done"}
       /\ q[2] = entity_of(fortification_links[q[1]].url)
  /\ \A i \in Tasks :
       (pc[i] = "sleep" /\ ~Truthy(wikidata_id[i])) =>
         (i \notin requesters /\ i \notin writers)
  /\ \A i \in Tasks : pc[i] = "getcoord" => Truthy(wikidata_id[i])
  /\ writers \subseteq requesters
  /\ \A id \in {None, <<>>} :
       /\ ~issues_request(id)
       /\ \A r \in ClaimsNames :
            get_coordinates_from_wikidata(id, Claims(id, r)) = <<None, None>>

\* a task whose page lookup gave no id is about to return, without a
\* request, after another task sent its request and wrote its row
C15_Witness ==
  \E i, j \in Tasks :
    /\ pc[i] = "sleep"
    /\ wikidata_id[i] = None
    /\ i \notin requesters
    /\ j \in requesters
    /\ j \in writers

\* C16: a task returns only from the pause of line 173, which is its last
\* step: the pause is followed by the return and by nothing else of the task,
\* no row, no request and no change of the lock; and each way through
\* process_fortification ends at the pause: from the page lookup a task goes
\* on to the coordinate lookup or to the pause, from the coordinate lookup to
\* the lock or to the pause, from the lock to the append, and from the append
\* to the pause.
C16_PauseLast ==
  [][\A i \in DOMAIN pc :
       i \in DOMAIN pc' =>
         /\ (pc'[i] = "done" /\ pc[i] # "done") => pc[i] = "sleep"
         /\ (pc[i] = "sleep" /\ pc'[i] # "sleep") =>
              /\ pc'[i] = "done"
              /\ UNCHANGED <<temp_csv, writes, claims_requests, csv_lock>>
         /\ (pc[i] = "getid" /\ pc'[i] # "getid") =>
              pc'[i] \in {"getcoord", "sleep"}
         /\ (pc[i] = "getcoord" /\ pc'[i] # "getcoord") =>
              pc'[i] \in {"lock", "sleep"}
         /\ (pc[i] = "lock" /\ pc'[i] # "lock") => pc'[i] = "write"
         /\ (pc[i] = "write" /\ pc'[i] # "write") => pc'[i] = "sleep"]_vars

\* three tasks have returned: one appended its row, one sent its request and
\* got no coordinates, one got no id
C16_Witness ==
  \E i, j, k \in Tasks :
    /\ pc[i] = "done" /\ pc[j] = "done" /\ pc[k] = "done"
    /\ i \in writers
    /\ j \in requesters \ writers
    /\ k \notin requesters

\* C17: a task that is resolving its name, looking up its page or its
\* coordinates, waiting for the lock, pausing or not running does not hold
\* csv_lock; the step that resolves a name, sends a request or ends a pause is
\* never a step of the holder; and a task that waits for the lock can take it
\* whenever no task is at its append, whatever the other tasks are doing.
C17_LockGuardsAppendOnly ==
  /\ [](\A i \in Tasks : pc[i] # "write" => csv_lock # i)
  /\ [](\A j \in Tasks :
         (pc[j] = "lock" /\ \A i \in Tasks : pc[i] # "write") =>
           ENABLED Acquire(j))
  /\ [][\A i \in DOMAIN pc :
          (i \in DOMAIN pc' /\ pc'[i] # pc[i]
             /\ pc[i] \in {"queued", "getid", "getcoord", "sleep"}) =>
            (csv_lock # i /\ csv_lock' # i)]_vars

\* a task is at its append while another is at its page lookup and a third
\* at its pause
C17_Witness ==
  \E i, j, k \in Tasks :
    /\ pc[i] = "write"
    /\ csv_lock = i
    /\ pc[j] \in {"getid", "getcoord"}
    /\ pc[k] = "sleep"

\* C18: when every request returns and every thread that can run does, a
\* task that was submitted returns, the lock that was taken is released, and
\* main, once it has the links of the page, gets past the wait, runs
\* remove_duplicates and ends.
C18_RunEnds ==
  /\ \A i \in 1..MaxLinks :
       (i \in Tasks /\ pc[i] = "queued") ~> (i \in Tasks /\ pc[i] = "done")
  /\ (csv_lock # 0) ~> (csv_lock = 0)
  /\ (mainpc = "filter") ~> (mainpc = "dedup")
  /\ (mainpc = "filter") ~> [](mainpc = "done" /\ csv_lock = 0)

\* the run has ended after three tasks, two of which took the lock
C18_Witness ==
  /\ mainpc = "done"
  /\ Len(pc) = 3
  /\ \A i \in Tasks : pc[i] = "done"
  /\ Len(writes) = 2
  /\ csv_lock = 0

\* file is what old was, with rows added at the end or with none added
extends(file, old) ==
  /\ Len(file) >= Len(old)
  /\ SubSeq(file, 1, Len(old)) = old

\* C19: once the temporary file is open a step only adds rows at its end, one
\* at most, and remove_duplicates leaves it as it was and writes the final
\* file, which no step before it touches; each file, once written, starts
\* with the header; the header is not among the rows remove_duplicates
\* compares, so the final file has the header and one row for each reference
\* of the data rows, and no data row is the header.
C19_AppendOnlySink ==
  /\ [][/\ temp_csv # <<>> =>
            /\ extends(temp_csv', temp_csv)
            /\ Len(temp_csv') <= Len(temp_csv) + 1
        /\ mainpc = "dedup" => temp_csv' = temp_csv
        /\ final_csv' # final_csv => mainpc = "dedup" /\ final_csv = <<>>]_vars
  /\ [](mainpc \in {"submit", "dedup", "done"} =>
          temp_csv # <<>> /\ temp_csv[1] = csv_header)
  /\ [](mainpc = "done" =>
          /\ final_csv # <<>>
          /\ final_csv[1] = csv_header
          /\ Len(final_csv) = 1 + Cardinality(references(temp_csv))
          /\ \A k \in 1..Len(data_rows(final_csv)) :
               data_rows(final_csv)[k] # csv_header
          /\ \A k \in 1..Len(data_rows(temp_csv)) :
               data_rows(temp_csv)[k] # csv_header)
  /\ [](mainpc # "done" => final_csv = <<>>)

\* the run has ended: the temporary file still has its three rows, two of
\* them for one reference, and the final file has two
C19_Witness ==
  /\ mainpc = "done"
  /\ Len(temp_csv) = 4
  /\ Len(final_csv) = 3
  /\ temp_csv # final_csv

\* the title of the page a reference is to: its path after /wiki/, the
\* escapes decoded
title_of(reference) ==
  Unquote(SubSeq(reference, Len(base_url \o wiki_prefix) + 1, Len(reference)))

\* the page of the reference is in one of the excluded namespaces
in_excluded_namespace(reference) ==
  \E k \in 1..Len(excluded_namespaces) :
    StartsWith(title_of(reference), excluded_namespaces[k])

\* a link to a page under /wiki/ with a text that is not blank, whose page is
\* in no excluded namespace, and which is_fortification accepts
dispatchable(link) ==
  /\ Truthy(link.href)
  /\ StartsWith(link.href, wiki_prefix)
  /\ Strip(link.text) # <<>>
  /\ ~in_excluded_namespace(candidate_of(link).url)
  /\ is_fortification(candidate_of(link).name, candidate_of(link).url)

\* the candidates main has submitted to the executor
dispatched == {i \in Tasks : pc[i] # "unsubmitted"}

\* C20: every candidate submitted to the executor has a name that is not
\* empty, a reference to a page in none of the excluded namespaces, and is
\* accepted by is_fortification; and the candidates are exactly the
\* dispatchable links of the page, one for each occurrence and in page order,
\* all of them submitted when main goes on to remove_duplicates.
C20_DispatchedAreTheArticleLinks ==
  /\ \A i \in dispatched :
       /\ fortification_links[i].name # <<>>
       /\ ~in_excluded_namespace(fortification_links[i].url)
       /\ is_fortification(fortification_links[i].name,
                           fortification_links[i].url)
  /\ mainpc = "open" =>
       LET wanted == SelectSeq(links, dispatchable)
       IN  /\ Len(fortification_links) = Len(wanted)
           /\ \A k \in 1..Len(wanted) :
                fortification_links[k] = candidate_of(wanted[k])
  /\ mainpc \in {"dedup", "done"} => dispatched = Tasks

====
